---- MODULE Spec2Model ----
(***************************************************************************)
(* Annuity liability projection (src/model.py).                            *)
(*                                                                         *)
(* Every @variable of the source is a series of cells (series, t).  A run  *)
(* evaluates the cells on demand through a memo: the body of a cell runs   *)
(* against the memo and either calls a cell that is not computed yet,      *)
(* returns its value, or raises.                                           *)
(*                                                                         *)
(* Numbers are fixed point: probabilities in units of 1/Scale, money in    *)
(* cents, percentages in units of 1/100.  Present values produced by the   *)
(* library's discount() are not carried numerically; the cells record      *)
(* which cash-flow months each element is built from.                      *)
(***************************************************************************)
EXTENDS Integers, Sequences, FiniteSets, TLC

VARIABLES policy, assumption, projection_length, cache, evals, stack, status

vars == <<policy, assumption, projection_length, cache, evals, stack, status>>

\* ---- bounds of the model
MaxT == 24
Scale == 1000

\* ---- input domains
Horizons == {2, MaxT}
Ages == {65, 109}
Genders == {0, 1}
GuaranteeTerms == {-1, 24}
Durations == {0, 7}
Frequencies == {1, 2, 4, 12}
EscalationTypes == {0, 1, 2, 3}

\* mortality_base_table: annual q_x in units of 1/Scale, by age and column
mortality_base_table(age, column) ==
  IF age >= 110 THEN Scale
  ELSE IF column = "male"
       THEN (IF age = 65 THEN 0 ELSE ((age - 60) * Scale) \div 100)
       ELSE ((age - 62) * Scale) \div 200

\* mortality_overlay: factor in percent, by column
mortality_overlay(column) == IF column = "male" THEN 250 ELSE 80

\* inflation_forward: rate in percent, by month index
inflation_forward(k) == 1 + (k % 3)

\* ---- helpers
Min2(a, b) == IF a <= b THEN a ELSE b
SetMax(S) == CHOOSE x \in S : \A y \in S : y <= x
SetMin(S) == CHOOSE x \in S : \A y \in S : x <= y

\* int(): truncation toward zero of the rational num / den (den > 0)
IntTrunc(num, den) == IF num >= 0 THEN num \div den ELSE -((-num) \div den)

\* fixed-point roots of x / Scale, rounded down
Cbrt(x) == CHOOSE r \in 0..Scale :
             r * r * r <= x * Scale * Scale /\ (r + 1) * (r + 1) * (r + 1) > x * Scale * Scale
Sqrt(x) == CHOOSE r \in 0..Scale : r * r <= x * Scale /\ (r + 1) * (r + 1) > x * Scale
\* x ** (1 / 12)
Root12(x) == Sqrt(Sqrt(Cbrt(x)))

\* ---- cells and the memo
ArraySeries == {"within_guarantee_period_array", "discount_rate", "EPV_annuity_benefit",
                "EPV_renewal_expenses", "EPV_investment_expenses", "EPV_total_expenses",
                "EPV_liability_gross", "EPV_liability"}
All == 0 - 1
Cell(s, t) == [s |-> s, t |-> t]
\* the cell a call s(t) is answered from: an array variable is one cell
CellOf(c) == IF c.s \in ArraySeries THEN Cell(c.s, All) ELSE c
Done(c) == CellOf(c) \in DOMAIN cache
Val(c) == IF c.s \in ArraySeries /\ c.t # All
          THEN cache[CellOf(c)].v[c.t] ELSE cache[CellOf(c)].v
T == projection_length
Months == 0..T
\* the latest month a computed cell (an element, or a whole array) is built from
Hz(c) == IF c.s \notin ArraySeries THEN cache[c].hz
         ELSE IF c.t # All THEN cache[CellOf(c)].hz[c.t]
         ELSE CHOOSE m \in Months : /\ \E t \in Months : cache[c].hz[t] = m
                                    /\ \A t \in Months : cache[c].hz[t] <= m

\* outcomes of running a body against the memo
Call(c) == [k |-> "call", c |-> CellOf(c)]
Return(v, reads) == [k |-> "return", v |-> v, r |-> reads]
Raise(e) == [k |-> "raise", e |-> e]

\* ---- policy variables
age_at_entry == policy.age_at_entry
gender == policy.gender
initial_guarantee_term == policy.initial_guarantee_term
initial_annuity == policy.initial_annuity
escalation_type == policy.escalation_type
escalation_rate == policy.escalation_rate
annuity_payment_frequency == policy.annuity_payment_frequency
duration_IF == policy.duration_IF
max_mortality_age == assumption.max_mortality_age
column == IF gender = 0 THEN "male" ELSE "female"
mortality_overlay_factor == mortality_overlay(column)
base_renewal_expense == assumption.renewal_expense
renewal_expense_inflation_margin == assumption.inflation_margin
initial_annuity_per_payment_period == initial_annuity \div annuity_payment_frequency

\* ---- mortality and survival
\* fault: the recursive step goes back one month instead of twelve
current_age_monthly_step(t) ==
  LET prev == Cell("current_age", t - 1) IN
  IF t < 12 THEN Return(IntTrunc(12 * age_at_entry + duration_IF + t, 12), {})
  ELSE IF ~Done(prev) THEN Call(prev)
  ELSE Return(Val(prev) + 1, {prev})

current_age(t) ==
  LET prev == Cell("current_age", t - 12) IN
  IF t < 12 THEN Return(IntTrunc(12 * age_at_entry + duration_IF + t, 12), {})
  ELSE IF ~Done(prev) THEN Call(prev)
  ELSE Return(Val(prev) + 1, {prev})

\* fault: the rate beyond max_mortality_age comes from the table like any other
death_rate_without_age_cap(t) ==
  LET a == Cell("current_age", t)
      b == Cell("current_age", t - 1)
      p == Cell("death_rate", t - 1)
      reads == IF t # 0 THEN {a, b} ELSE {a}
      q_x == mortality_base_table(Val(a), column)
      q_x_monthly == Scale - Root12(Scale - q_x)
  IN
  IF ~Done(a) THEN Call(a)
  ELSE IF t # 0 /\ ~Done(b) THEN Call(b)
  ELSE IF t # 0 /\ Val(a) = Val(b)
       THEN (IF ~Done(p) THEN Call(p) ELSE Return(Val(p), reads \cup {p}))
  ELSE Return(Min2(Scale, (q_x_monthly * mortality_overlay_factor) \div 100), reads)

death_rate(t) ==
  LET a == Cell("current_age", t)
      b == Cell("current_age", t - 1)
      p == Cell("death_rate", t - 1)
      reads == IF t # 0 THEN {a, b} ELSE {a}
      q_x == mortality_base_table(Val(a), column)
      q_x_monthly == Scale - Root12(Scale - q_x)
  IN
  IF ~Done(a) THEN Call(a)
  ELSE IF t # 0 /\ ~Done(b) THEN Call(b)
  ELSE IF t # 0 /\ Val(a) = Val(b)
       THEN (IF ~Done(p) THEN Call(p) ELSE Return(Val(p), reads \cup {p}))
  ELSE IF Val(a) <= max_mortality_age
       THEN Return(Min2(Scale, (q_x_monthly * mortality_overlay_factor) \div 100), reads)
  ELSE Return(Scale, reads)

\* fault: the decrement is added instead of subtracted
expected_number_of_policies_IF_adding_rate(t) ==
  LET prev == Cell("expected_number_of_policies_IF", t - 1)
      d == Cell("death_rate", t - 1)
  IN
  IF t = 0 THEN Return(Scale, {})
  ELSE IF ~Done(prev) THEN Call(prev)
  ELSE IF ~Done(d) THEN Call(d)
  ELSE Return((Val(prev) * (Scale + Val(d))) \div Scale, {prev, d})

expected_number_of_policies_IF(t) ==
  LET prev == Cell("expected_number_of_policies_IF", t - 1)
      d == Cell("death_rate", t - 1)
  IN
  IF t = 0 THEN Return(Scale, {})
  ELSE IF ~Done(prev) THEN Call(prev)
  ELSE IF ~Done(d) THEN Call(d)
  ELSE Return((Val(prev) * (Scale - Val(d))) \div Scale, {prev, d})

\* ---- guarantee period
\* fault: the guard tests the previous flag for being set instead of cleared
within_guarantee_period_guard_inverted(t) ==
  LET prev == Cell("within_guarantee_period", t - 1)
      duration_at_t == duration_IF + t
      flag == IF duration_at_t < initial_guarantee_term THEN 1 ELSE 0
  IN
  IF t # 0 /\ ~Done(prev) THEN Call(prev)
  ELSE IF t # 0 /\ Val(prev) # 0 THEN Return(0, {prev})
  ELSE Return(flag, IF t # 0 THEN {prev} ELSE {})

within_guarantee_period(t) ==
  LET prev == Cell("within_guarantee_period", t - 1)
      duration_at_t == duration_IF + t
      flag == IF duration_at_t < initial_guarantee_term THEN 1 ELSE 0
  IN
  IF t # 0 /\ ~Done(prev) THEN Call(prev)
  ELSE IF t # 0 /\ Val(prev) = 0 THEN Return(0, {prev})
  ELSE Return(flag, IF t # 0 THEN {prev} ELSE {})

\* fault: the comparison includes the month the term ends
within_guarantee_period_array_inclusive ==
  Return([t \in Months |-> IF (policy.duration_IF + t) <= policy.initial_guarantee_term
                           THEN 1 ELSE 0],
         [t \in Months |-> {}])

within_guarantee_period_array ==
  Return([t \in Months |-> IF (policy.duration_IF + t) < policy.initial_guarantee_term
                           THEN 1 ELSE 0],
         [t \in Months |-> {}])

\* ---- annuity benefits
\* fault: the escalation refers to the previous month instead of the previous year
annuity_payment_previous_month(t) ==
  LET duration_at_t == duration_IF + t
      payment_interval == 12 \div annuity_payment_frequency
      is_payment_month == (duration_at_t % payment_interval = 0)
      prev == Cell("annuity_payment_per_policy", t - 1)
  IN
  IF ~is_payment_month THEN Return(0, {})
  ELSE IF escalation_type = 0 THEN Return(initial_annuity \div annuity_payment_frequency, {})
  ELSE IF escalation_type = 1
       THEN (IF t < 12 THEN Return(initial_annuity_per_payment_period, {})
             ELSE IF ~Done(prev) THEN Call(prev)
             ELSE Return((Val(prev) * (100 + escalation_rate)) \div 100, {prev}))
  ELSE IF escalation_type = 2
       THEN (IF t < 12 THEN Return(initial_annuity_per_payment_period, {})
             ELSE IF ~Done(prev) THEN Call(prev)
             ELSE Return((Val(prev) * (100 + inflation_forward(t - 1))) \div 100, {prev}))
  ELSE Raise("Unsupported escalation_type")

\* fault: the level annuity is returned before the payment month is tested
annuity_payment_unchecked_month(t) ==
  LET duration_at_t == duration_IF + t
      payment_interval == 12 \div annuity_payment_frequency
      is_payment_month == (duration_at_t % payment_interval = 0)
      prev == Cell("annuity_payment_per_policy", t - 12)
  IN
  IF escalation_type = 0 THEN Return(initial_annuity \div annuity_payment_frequency, {})
  ELSE IF ~is_payment_month THEN Return(0, {})
  ELSE IF escalation_type = 1
       THEN (IF t < 12 THEN Return(initial_annuity_per_payment_period, {})
             ELSE IF ~Done(prev) THEN Call(prev)
             ELSE Return((Val(prev) * (100 + escalation_rate)) \div 100, {prev}))
  ELSE IF escalation_type = 2
       THEN (IF t < 12 THEN Return(initial_annuity_per_payment_period, {})
             ELSE IF ~Done(prev) THEN Call(prev)
             ELSE Return((Val(prev) * (100 + inflation_forward(t - 12))) \div 100, {prev}))
  ELSE Raise("Unsupported escalation_type")

annuity_payment_per_policy(t) ==
  LET duration_at_t == duration_IF + t
      payment_interval == 12 \div annuity_payment_frequency
      is_payment_month == (duration_at_t % payment_interval = 0)
      prev == Cell("annuity_payment_per_policy", t - 12)
  IN
  IF ~is_payment_month THEN Return(0, {})
  ELSE IF escalation_type = 0 THEN Return(initial_annuity \div annuity_payment_frequency, {})
  ELSE IF escalation_type = 1
       THEN (IF t < 12 THEN Return(initial_annuity_per_payment_period, {})
             ELSE IF ~Done(prev) THEN Call(prev)
             ELSE Return((Val(prev) * (100 + escalation_rate)) \div 100, {prev}))
  ELSE IF escalation_type = 2
       THEN (IF t < 12 THEN Return(initial_annuity_per_payment_period, {})
             ELSE IF ~Done(prev) THEN Call(prev)
             ELSE Return((Val(prev) * (100 + inflation_forward(t - 12))) \div 100, {prev}))
  ELSE Raise("Unsupported escalation_type")

expected_annuity_payment(t) ==
  LET w == Cell("within_guarantee_period", t)
      a == Cell("annuity_payment_per_policy", t)
      n == Cell("expected_number_of_policies_IF", t)
  IN
  IF ~Done(w) THEN Call(w)
  ELSE IF ~Done(a) THEN Call(a)
  ELSE IF Val(w) # 0 THEN Return(Val(a), {w, a})
  ELSE IF ~Done(n) THEN Call(n)
  ELSE Return((Val(a) * Val(n)) \div Scale, {w, a, n})

\* ---- renewal expenses
renewal_expense_per_policy(t) ==
  LET duration_at_t == duration_IF + t
      prev == Cell("renewal_expense_per_policy", t - 12)
  IN
  IF duration_at_t % 12 # 0 THEN Return(0, {})
  ELSE IF t < 12 THEN Return(base_renewal_expense, {})
  ELSE IF ~Done(prev) THEN Call(prev)
  ELSE Return((Val(prev) * (100 + inflation_forward(t - 12) + renewal_expense_inflation_margin))
                \div 100, {prev})

\* fault: the expense is weighted by the in-force count of the following month
expected_renewal_expense_payment_next_month(t) ==
  LET e == Cell("renewal_expense_per_policy", t)
      n == Cell("expected_number_of_policies_IF", t + 1)
  IN
  IF ~Done(e) THEN Call(e)
  ELSE IF ~Done(n) THEN Call(n)
  ELSE Return((Val(e) * Val(n)) \div Scale, {e, n})

expected_renewal_expense_payment(t) ==
  LET e == Cell("renewal_expense_per_policy", t)
      n == Cell("expected_number_of_policies_IF", t)
  IN
  IF ~Done(e) THEN Call(e)
  ELSE IF ~Done(n) THEN Call(n)
  ELSE Return((Val(e) * Val(n)) \div Scale, {e, n})

\* ---- investment expenses
PV == "present value"

\* fault: the asset proxy is the total liability, which includes these expenses
investment_expense_payment_on_total_liability(t) ==
  LET g == Cell("EPV_liability", t) IN
  IF ~Done(g) THEN Call(g) ELSE Return(PV, {g})

investment_expense_payment(t) ==
  LET g == Cell("EPV_liability_gross", t) IN
  IF ~Done(g) THEN Call(g) ELSE Return(PV, {g})

\* ---- discounted values
discount_rate == Return([t \in Months |-> "factor"], [t \in Months |-> {}])

\* series() without t: the whole series, month by month
Pending(s) == {t \in Months : ~Done(Cell(s, t))}

\* discount(cash_flows, discount_rates)[t]: the cash flows of the months s >= t,
\* each divided by the discount factors of the months t..s
discount(cash_flows) ==
  [t \in Months |-> {Cell(cash_flows, s) : s \in t..T} \cup {Cell("discount_rate", k) : k \in t..T}]

Discounted(cash_flows) ==
  IF Pending(cash_flows) # {} THEN Call(Cell(cash_flows, SetMin(Pending(cash_flows))))
  ELSE IF ~Done(Cell("discount_rate", All)) THEN Call(Cell("discount_rate", All))
  ELSE Return([t \in Months |-> PV], discount(cash_flows))

\* a() + b() on two arrays, element by element
Sum(a, b) ==
  IF ~Done(Cell(a, All)) THEN Call(Cell(a, All))
  ELSE IF ~Done(Cell(b, All)) THEN Call(Cell(b, All))
  ELSE Return([t \in Months |-> PV], [t \in Months |-> {Cell(a, t), Cell(b, t)}])

EPV_annuity_benefit == Discounted("expected_annuity_payment")
EPV_renewal_expenses == Discounted("expected_renewal_expense_payment")
EPV_investment_expenses == Discounted("investment_expense_payment")
EPV_total_expenses == Sum("EPV_renewal_expenses", "EPV_investment_expenses")
EPV_liability_gross == Sum("EPV_annuity_benefit", "EPV_renewal_expenses")
EPV_liability == Sum("EPV_annuity_benefit", "EPV_total_expenses")

liability ==
  LET e == Cell("EPV_liability", 0) IN
  IF ~Done(e) THEN Call(e) ELSE Return(PV, {e})

\* the series a run produces for every month
ScalarSeries == <<"current_age", "death_rate", "expected_number_of_policies_IF",
                  "within_guarantee_period", "annuity_payment_per_policy",
                  "expected_annuity_payment", "renewal_expense_per_policy",
                  "expected_renewal_expense_payment", "investment_expense_payment">>

\* the run produces liability and every series of the model at every month
projection ==
  LET l == Cell("liability", 0)
      a == Cell("within_guarantee_period_array", All)
      missing == {i \in 1..Len(ScalarSeries) : Pending(ScalarSeries[i]) # {}}
      s == ScalarSeries[SetMin(missing)]
  IN
  IF ~Done(l) THEN Call(l)
  ELSE IF ~Done(a) THEN Call(a)
  ELSE IF missing # {} THEN Call(Cell(s, SetMin(Pending(s))))
  ELSE Return("produced", {l, a})

\* ---- the memoizing evaluator
Body(c) ==
  CASE c.s = "current_age" -> current_age(c.t)
    [] c.s = "death_rate" -> death_rate(c.t)
    [] c.s = "expected_number_of_policies_IF" -> expected_number_of_policies_IF(c.t)
    [] c.s = "within_guarantee_period" -> within_guarantee_period(c.t)
    [] c.s = "within_guarantee_period_array" -> within_guarantee_period_array
    [] c.s = "annuity_payment_per_policy" -> annuity_payment_per_policy(c.t)
    [] c.s = "expected_annuity_payment" -> expected_annuity_payment(c.t)
    [] c.s = "renewal_expense_per_policy" -> renewal_expense_per_policy(c.t)
    [] c.s = "expected_renewal_expense_payment" -> expected_renewal_expense_payment(c.t)
    [] c.s = "investment_expense_payment" -> investment_expense_payment(c.t)
    [] c.s = "discount_rate" -> discount_rate
    [] c.s = "EPV_annuity_benefit" -> EPV_annuity_benefit
    [] c.s = "EPV_renewal_expenses" -> EPV_renewal_expenses
    [] c.s = "EPV_investment_expenses" -> EPV_investment_expenses
    [] c.s = "EPV_total_expenses" -> EPV_total_expenses
    [] c.s = "EPV_liability_gross" -> EPV_liability_gross
    [] c.s = "EPV_liability" -> EPV_liability
    [] c.s = "liability" -> liability
    [] c.s = "projection" -> projection

Top == stack[Len(stack)]
Running == status = "running" /\ stack # <<>>
InProgress(c) == \E i \in 1..Len(stack) : stack[i] = c

\* the latest month among the cell's own and those its reads are built from
Horizon(c, reads) ==
  IF c.s \in ArraySeries
  THEN [t \in Months |-> SetMax({t} \cup {Hz(x) : x \in reads[t]})]
  ELSE SetMax({c.t} \cup {Hz(x) : x \in reads})

Init ==
  /\ policy \in [age_at_entry : Ages, gender : Genders,
                 initial_guarantee_term : GuaranteeTerms, initial_annuity : {120000},
                 escalation_type : EscalationTypes, escalation_rate : {3},
                 annuity_payment_frequency : Frequencies, duration_IF : Durations]
  /\ assumption = [max_mortality_age |-> 110, renewal_expense |-> 5000,
                   inflation_margin |-> 1, investment_expense |-> 1]
  /\ projection_length \in Horizons
  /\ cache = <<>>
  /\ evals = <<>>
  /\ stack = <<Cell("projection", 0)>>
  /\ status = "running"

\* the body in progress calls a cell that is not in the memo
CallStep ==
  /\ Running
  /\ Body(Top).k = "call"
  /\ LET c == Body(Top).c IN
       IF InProgress(c)
       THEN status' = "cycle" /\ UNCHANGED stack
       ELSE stack' = Append(stack, c) /\ UNCHANGED status
  /\ UNCHANGED <<policy, assumption, projection_length, cache, evals>>

\* the body in progress returns: its cell enters the memo
ReturnStep ==
  /\ Running
  /\ Body(Top).k = "return"
  /\ LET out == Body(Top) IN
       cache' = (Top :> [v |-> out.v, hz |-> Horizon(Top, out.r)]) @@ cache
  /\ evals' = (Top :> (IF Top \in DOMAIN evals THEN evals[Top] + 1 ELSE 1)) @@ evals
  /\ stack' = SubSeq(stack, 1, Len(stack) - 1)
  /\ status' = IF Len(stack) = 1 THEN "done" ELSE status
  /\ UNCHANGED <<policy, assumption, projection_length>>

\* the body in progress raises: the exception unwinds the whole run
RaiseStep ==
  /\ Running
  /\ Body(Top).k = "raise"
  /\ status' = "error"
  /\ stack' = <<>>
  /\ UNCHANGED <<policy, assumption, projection_length, cache, evals>>

Next == CallStep \/ ReturnStep \/ RaiseStep

Spec == Init /\ [][Next]_vars

\* ---- the series, by cell
Age(t) == Cell("current_age", t)
Rate(t) == Cell("death_rate", t)
InForce(t) == Cell("expected_number_of_policies_IF", t)
Flag(t) == Cell("within_guarantee_period", t)
FlagArray(t) == Cell("within_guarantee_period_array", t)
Payment(t) == Cell("annuity_payment_per_policy", t)
Finished == status = "done"

\* C1: within_guarantee_period(t) is 0 or 1, and when it is 0 at month t it is 0
\* at month t + 1 (so once 0 it stays 0).
C1_GuaranteeFlagAbsorbing ==
  \A t \in Months : Done(Flag(t)) =>
    /\ Val(Flag(t)) \in {0, 1}
    /\ (t + 1 \in Months /\ Done(Flag(t + 1)) /\ Val(Flag(t)) = 0) => Val(Flag(t + 1)) = 0

C1_Witness ==
  /\ Finished
  /\ \E t \in Months : /\ t + 1 < T
                       /\ Val(Flag(t)) = 1 /\ Val(Flag(t + 1)) = 0 /\ Val(Flag(T)) = 0

\* C2: at every month the precomputed array equals the scalar recurrence, and both
\* are 1 exactly when duration_IF + t < initial_guarantee_term.
C2_ArrayEqualsScalar ==
  \A t \in Months : (Done(FlagArray(t)) /\ Done(Flag(t))) =>
    /\ Val(FlagArray(t)) = Val(Flag(t))
    /\ (Val(Flag(t)) = 1) <=> (duration_IF + t < initial_guarantee_term)

C2_Witness ==
  /\ Finished /\ initial_guarantee_term = 24 /\ duration_IF = 0 /\ T >= 24
  /\ Val(Flag(23)) = 1 /\ Val(FlagArray(23)) = 1
  /\ Val(Flag(24)) = 0 /\ Val(FlagArray(24)) = 0

\* C3: death_rate(t) lies in [0, 1], and it is exactly 1 whenever current_age(t)
\* exceeds max_mortality_age, also when it comes from death_rate(t - 1).
C3_DeathRateBounds ==
  \A t \in Months : Done(Rate(t)) =>
    /\ 0 <= Val(Rate(t)) /\ Val(Rate(t)) <= Scale
    /\ Val(Age(t)) > max_mortality_age => Val(Rate(t)) = Scale

C3_Witness ==
  /\ Finished
  /\ \E t \in Months : /\ t >= 1
                       /\ Val(Age(t)) > max_mortality_age
                       /\ Val(Age(t)) = Val(Age(t - 1))
                       /\ Val(Rate(t)) = Scale
  /\ \E t \in Months : 0 < Val(Rate(t)) /\ Val(Rate(t)) < Scale

\* C4: expected_number_of_policies_IF(0) is exactly 1, every value lies in [0, 1],
\* and each value is at most the one of the month before (the previous value times
\* 1 - death_rate of the month before).
C4_InForceNonIncreasing ==
  \A t \in Months : Done(InForce(t)) =>
    /\ 0 <= Val(InForce(t)) /\ Val(InForce(t)) <= Scale
    /\ t = 0 => Val(InForce(t)) = Scale
    /\ (t + 1 \in Months /\ Done(InForce(t + 1))) =>
         /\ Val(InForce(t + 1)) <= Val(InForce(t))
         /\ Val(InForce(t + 1)) = (Val(InForce(t)) * (Scale - Val(Rate(t)))) \div Scale

C4_Witness ==
  /\ Finished
  /\ \E t \in Months : /\ t + 1 \in Months
                       /\ 0 < Val(InForce(t + 1))
                       /\ Val(InForce(t + 1)) < Val(InForce(t))
  /\ Val(InForce(T)) = 0

\* C5: current_age(t) = age_at_entry + floor((duration_IF + t) / 12) at every month,
\* so it never decreases and current_age(t + 12) = current_age(t) + 1.
C5_CurrentAgeClosedForm ==
  \A t \in Months : Done(Age(t)) =>
    /\ Val(Age(t)) = age_at_entry + ((duration_IF + t) \div 12)
    /\ (t + 12 \in Months /\ Done(Age(t + 12))) => Val(Age(t + 12)) = Val(Age(t)) + 1
    /\ (t + 1 \in Months /\ Done(Age(t + 1))) => Val(Age(t + 1)) >= Val(Age(t))

C5_Witness ==
  /\ Finished /\ age_at_entry = 65 /\ duration_IF = 0 /\ T >= 24
  /\ \A t \in 0..11 : Val(Age(t)) = 65
  /\ Val(Age(12)) = 66 /\ Val(Age(23)) = 66 /\ Val(Age(24)) = 67

\* C6: with an escalation_type other than 0, 1 or 2 the run never finishes and
\* never produces a liability value.
C6_UnsupportedEscalationHalts ==
  escalation_type \notin {0, 1, 2} => (~Finished /\ ~Done(Cell("liability", 0)))

\* the initial payment multiplied by (1 + escalation_rate) k times
RECURSIVE Escalated(_, _)
Escalated(amount, k) ==
  IF k = 0 THEN amount ELSE (Escalated(amount, k - 1) * (100 + escalation_rate)) \div 100

IsPaymentMonth(t) == (duration_IF + t) % (12 \div annuity_payment_frequency) = 0

\* C7: with fixed escalation the payment of a payment month t is the initial payment
\* per period multiplied by (1 + escalation_rate) floor(t / 12) times, never zero.
C7_FixedEscalationCompounds ==
  escalation_type = 1 =>
    \A t \in Months : (Done(Payment(t)) /\ IsPaymentMonth(t)) =>
      /\ Val(Payment(t)) = Escalated(initial_annuity \div annuity_payment_frequency, t \div 12)
      /\ Val(Payment(t)) > 0

C7_Witness ==
  /\ Finished /\ escalation_type = 1 /\ annuity_payment_frequency = 1
  /\ duration_IF = 0 /\ initial_annuity = 120000 /\ escalation_rate = 3 /\ T >= 24
  /\ Val(Payment(0)) = 120000 /\ Val(Payment(12)) = 123600 /\ Val(Payment(24)) = 127308

\* C8: for the supported escalation types the payment is 0 in every month that is
\* not a payment month; with frequency 12 every month is a payment month.
C8_ZeroOutsidePaymentMonths ==
  escalation_type \in {0, 1, 2} =>
    \A t \in Months : Done(Payment(t)) =>
      /\ ~IsPaymentMonth(t) => Val(Payment(t)) = 0
      /\ annuity_payment_frequency = 12 => Val(Payment(t)) > 0

C8_Witness ==
  /\ Finished /\ annuity_payment_frequency = 4 /\ duration_IF = 7
  /\ Val(Payment(0)) = 0 /\ Val(Payment(1)) = 0 /\ Val(Payment(2)) > 0

RecurrenceSeries == {"current_age", "death_rate", "expected_number_of_policies_IF",
                     "within_guarantee_period", "annuity_payment_per_policy",
                     "expected_annuity_payment", "renewal_expense_per_policy",
                     "expected_renewal_expense_payment"}
PointwiseArrays == {"within_guarantee_period_array", "discount_rate"}
PresentValueArrays == ArraySeries \ PointwiseArrays
TimeSeries == RecurrenceSeries \cup {"investment_expense_payment"}

\* C9 as stated: no computed value of month t, of any series, is built from a cell
\* of a later month.
C9_NoLaterMonth ==
  \A c \in DOMAIN cache :
    /\ c.s \in TimeSeries => cache[c].hz <= c.t
    /\ c.s \in ArraySeries => \A t \in Months : cache[c].hz[t] <= t

\* C9 amended: the recurrence series and the pointwise arrays are built from months
\* up to t only; every EPV array element, investment_expense_payment(t) and liability
\* are built from the cash flows of all the months t..T.
C9_OnlyPresentValuesLookAhead ==
  \A c \in DOMAIN cache :
    /\ c.s \in RecurrenceSeries => cache[c].hz <= c.t
    /\ c.s \in PointwiseArrays => \A t \in Months : cache[c].hz[t] <= t
    /\ c.s \in PresentValueArrays => \A t \in Months : cache[c].hz[t] = T
    /\ c.s \in {"investment_expense_payment", "liability"} => cache[c].hz = T

C9_Witness ==
  /\ Finished /\ T = MaxT
  /\ Hz(Cell("investment_expense_payment", 0)) = T
  /\ Hz(Cell("EPV_liability_gross", 0)) = T
  /\ Hz(Cell("expected_annuity_payment", T)) = T
  /\ Hz(Cell("expected_annuity_payment", 0)) = 0

\* cells of a run: the scalar series over the months, the arrays, liability and the run
NumCells == Len(ScalarSeries) * (T + 1) + Cardinality(ArraySeries) + 2
\* two for every computed cell, one for every body in progress
Progress == 2 * Cardinality(DOMAIN cache) + Len(stack)

\* some step of Next is possible: a body is in progress and has an outcome
CanStep == stack # <<>> /\ Body(Top).k \in {"call", "return", "raise"}

\* C10: the run always ends: while it runs a step is possible, every step that
\* leaves it running advances the bounded progress measure, no cell is demanded
\* while its own computation is in progress, and no cell is computed twice.
C10_TerminatesWithoutCycle ==
  /\ [](status = "running" => (CanStep /\ Progress <= 3 * NumCells))
  /\ [][/\ status' # "cycle"
        /\ status' = "running" => Progress' > Progress
        /\ \A c \in DOMAIN evals' : evals'[c] <= 1]_vars

C10_Witness ==
  /\ Finished /\ T = MaxT
  /\ Done(Cell("liability", 0))
  /\ evals[Cell("investment_expense_payment", 0)] = 1
  /\ evals[Cell("EPV_liability_gross", All)] = 1
  /\ \A c \in DOMAIN cache : c \in DOMAIN evals

====
